---- MODULE Spec2Model ----
(***************************************************************************)
(* The incremental loader of src/store.py: main drives save_file over the  *)
(* snapshot files in date order; save_file reads a snapshot, computes the  *)
(* new offers, prices and avg_prices rows against the store, and writes    *)
(* them in one transaction.  The scraper of src/parser.py, which writes    *)
(* the snapshot of the day, is modelled after the loader.                  *)
(*                                                                         *)
(* Encoding of values:                                                     *)
(*  - a calendar day is a number; the text 'YYYY-MM-DD' of a csv cell or a *)
(*    file stem is that number;                                            *)
(*  - a Python datetime.datetime is [type |-> "datetime", day |-> d] and a *)
(*    Python datetime.date is [type |-> "date", day |-> d]: Python never   *)
(*    finds a datetime equal to a date, and neither are these records;     *)
(*  - an address is a number (addresses are only compared and sorted);     *)
(*  - a Python float with two decimals is a number of hundredths;          *)
(*  - None is <<>> and a present value v is <<v>>;                         *)
(*  - release_date, house_material, lat and lon of an offer are carried    *)
(*    exactly like floor and are left out.                                 *)
(***************************************************************************)
EXTENDS Integers, Sequences, FiniteSets, TLC

\* total number of save_file calls over all runs of main
MaxPasses == 2

\* chunked(rows, 100) in insert_butch
ChunkSize == 100

None == <<>>
Some(v) == <<v>>

Min(a, b) == IF a <= b THEN a ELSE b

\* int(x / y) of Python for y > 0: true division, then truncation toward zero
TruncDiv(x, y) == IF x >= 0 THEN x \div y ELSE -((-x) \div y)

(***************************************************************************)
(* The snapshot files.  A csv row is a record of its cells; malformed is   *)
(* TRUE when a cell is missing or is text that int(), strptime or Decimal  *)
(* rejects.                                                                *)
(***************************************************************************)
RawRow(id, d, u, a, ar, fl, p) ==
    [offer_id |-> id, date |-> d, url |-> u, address |-> a, area |-> ar,
     floor |-> fl, price |-> p, malformed |-> FALSE]

\* day 1: address 1, prices {100, 200} over areas {10, 10}
BaseRows(d) == << RawRow(1, d, 1, 1, 1000, 1, 100), RawRow(2, d, 2, 1, 1000, 1, 200) >>
\* offer 1 again with another floor, prices {150, 250} over areas {10, 10}
NextRows(d) == << RawRow(1, d, 1, 1, 1000, 2, 150), RawRow(3, d, 3, 1, 1000, 1, 250) >>
\* the addresses 2, 1, 2: out of order and not adjacent; address 1 has the mean
\* 47/3 (offer 3 again); a raw area that is no multiple of 100; and a new offer
\* with the url of offer 2
FracRows(d) == << RawRow(4, d, 4, 2, 299, 1, 30), RawRow(3, d, 3, 1, 300, 5, 47),
                  RawRow(10, d, 2, 2, 200, 1, 30) >>
\* a raw area below 100
ZeroRows(d) == << RawRow(5, d, 5, 1, 50, 1, 10) >>
\* a row that cannot be coerced, after a good one
BadRows(d) == << RawRow(6, d, 6, 1, 1000, 1, 100),
                 [RawRow(7, d, 7, 1, 1000, 1, 100) EXCEPT !.malformed = TRUE] >>
\* the same new offer id twice
DupRows(d) == << RawRow(8, d, 8, 2, 400, 1, 80), RawRow(8, d, 9, 2, 400, 1, 80) >>
\* one row more than a chunk holds
BigLen == ChunkSize + 1
BigRows(d) == [i \in 1..BigLen |-> RawRow(100 + i, d, 100 + i, 2, 100, 1, 7)]

File(d, rs) == [stem |-> d, rows |-> rs]

\* the largest raw area of the one-row snapshots
MaxRawArea == 250

\* a snapshot of one row with the raw area r
AreaFile(r) == File(1, << RawRow(12, 1, 12, 1, r, 1, 100) >>)

AreaFiles == { AreaFile(r) : r \in 0..MaxRawArea }

\* the files a snapshot directory may hold
Files == { File(1, BaseRows(1)), File(1, BadRows(1)),
           File(2, NextRows(2)), File(2, ZeroRows(2)), File(2, BigRows(2)),
           File(3, FracRows(3)), File(3, DupRows(3)) }

RECURSIVE SeqsOver(_)
\* every ordering of a set, as sequences
SeqsOver(S) ==
    IF S = {} THEN { <<>> }
    ELSE UNION { { <<x>> \o s : s \in SeqsOver(S \ {x}) } : x \in S }

RECURSIVE Directories(_, _)
\* the sets of at most n files out of dir that a directory can hold together:
\* their names (stems) differ
Directories(dir, n) ==
    IF n = 0 THEN { {} }
    ELSE LET smaller == Directories(dir, n - 1)
         IN  smaller \cup
             UNION { { D \cup {f} : f \in { g \in dir : \A h \in D : h.stem # g.stem } } :
                     D \in smaller }

\* what the glob of main may yield: the files of a directory, in any order
Listings(dir, n) == UNION { SeqsOver(D) : D \in Directories(dir, n) \ { {} } }

(***************************************************************************)
(* parse_raw_offer and read_offers                                         *)
(***************************************************************************)
strptime(d) == [type |-> "datetime", day |-> d]

\* variant: the area is rounded to the nearest integer
parse_raw_offer_rounded(raw) ==
    [offer_id |-> raw.offer_id,
     date     |-> strptime(raw.date),
     url      |-> raw.url,
     address  |-> raw.address,
     area     |-> (raw.area + 50) \div 100,
     floor    |-> raw.floor,
     price    |-> raw.price]

parse_raw_offer(raw) ==
    [offer_id |-> raw.offer_id,
     date     |-> strptime(raw.date),
     url      |-> raw.url,
     address  |-> raw.address,
     area     |-> TruncDiv(raw.area, 100),
     floor    |-> raw.floor,
     price    |-> raw.price]

\* Some(offers), or None when parse_raw_offer raises StoreException on a row
read_offers(file) ==
    IF \E i \in 1..Len(file.rows) : file.rows[i].malformed
    THEN None
    ELSE Some([i \in 1..Len(file.rows) |-> parse_raw_offer(file.rows[i])])

(***************************************************************************)
(* The store: three tables, each the sequence of its rows in insert order. *)
(*   offers     [offer_id, url, address, area, floor]                      *)
(*   prices     [address (the offer id), date (a day), price]              *)
(*   avg_prices [address, date (a day), avg_price, avg_price_change]       *)
(***************************************************************************)
EmptyStore == [offers |-> <<>>, prices |-> <<>>, avg_prices |-> <<>>]

Range(s) == { s[i] : i \in DOMAIN s }

\* DateField: a date column read back is a datetime.date; a datetime or a
\* date written or compared in a query is adapted to its day
DateField_python_value(d) == [type |-> "date", day |-> d]
DateField_db_value(v) == v.day

\* IntegerField.adapt is int(): a float (in hundredths) is truncated toward zero
IntegerField_db_value(hundredths) == TruncDiv(hundredths, 100)

get_exists_dates(table) ==
    { DateField_python_value(table[i].date) : i \in DOMAIN table }

\* variant: no offer is skipped
is_new_offer_always(offer, exists_id) == TRUE

\* the filter of get_offers_rows: an offer whose id is stored is skipped
is_new_offer(offer, exists_id) == offer.offer_id \notin exists_id

\* rows.append([offer.get(field) for field in fields])
offer_row(o) ==
    [offer_id |-> o.offer_id, url |-> o.url, address |-> o.address, area |-> o.area,
     floor |-> o.floor]

get_offers_rows(offs, store) ==
    LET offer_id  == { offs[i].offer_id : i \in DOMAIN offs }
        exists_id == { r.offer_id : r \in { q \in Range(store.offers) : q.offer_id \in offer_id } }
        keep(o)   == is_new_offer(o, exists_id)
    IN  SelectSeq([i \in DOMAIN offs |-> offer_row(offs[i])], keep)

\* rows.append([offer['offer_id'], offer['date'], offer['price']])
price_row(o) == [address |-> o.offer_id, date |-> o.date, price |-> o.price]

\* variant: a price row is emitted only for the offers that are new
get_price_rows_new_only(offs, store) ==
    LET exists_id == { r.offer_id : r \in Range(store.offers) }
        keep(r)   == r.address \notin exists_id
    IN  SelectSeq([i \in DOMAIN offs |-> price_row(offs[i])], keep)

get_price_rows(offs, store) ==
    LET exists_dates == get_exists_dates(store.prices)
        keep(r)      == ~(r.date \in exists_dates)
    IN  SelectSeq([i \in DOMAIN offs |-> price_row(offs[i])], keep)

(***************************************************************************)
(* The aggregator.  The mean of price/area is computed as an exact         *)
(* fraction and rounded to hundredths the way round(x, 2) rounds the       *)
(* float nearest to it (a tie goes to the even hundredth).                 *)
(***************************************************************************)
\* the one element of a singleton set
The(S) == CHOOSE v \in S : TRUE

RECURSIVE SumFrac(_, _, _, _)
\* sum([item['price'] / item['area'] for item in items]) as num/den, over the
\* offers of one address among offs[lo..hi].  The list is summed by halves,
\* which gives the same fraction; each half is bound to a name by a set
\* constructor so that it is computed once.
SumFrac(offs, address, lo, hi) ==
    IF lo > hi THEN [num |-> 0, den |-> 1]
    ELSE IF lo = hi
    THEN IF offs[lo].address = address
         THEN [num |-> offs[lo].price, den |-> offs[lo].area]
         ELSE [num |-> 0, den |-> 1]
    ELSE The({ The({ [num |-> l.num * r.den + r.num * l.den, den |-> l.den * r.den] :
                       l \in { SumFrac(offs, address, lo, m) },
                       r \in { SumFrac(offs, address, m + 1, hi) } }) :
               m \in { (lo + hi) \div 2 } })

\* len(items) of the group of one address
GroupLen(offs, address) == Cardinality({ i \in DOMAIN offs : offs[i].address = address })

\* n/d (n >= 0, d > 0) rounded to the nearest integer, a tie to the even one
RoundHalfEven(n, d) ==
    IF 2 * (n % d) > d THEN (n \div d) + 1
    ELSE IF 2 * (n % d) = d THEN (n \div d) + ((n \div d) % 2)
    ELSE n \div d

\* round(sum(...) / len(items), 2), in hundredths
avg_price_of(offs, address) ==
    The({ RoundHalfEven(100 * s.num, s.den * GroupLen(offs, address)) :
            s \in { SumFrac(offs, address, 1, Len(offs)) } })

\* price / area raises ZeroDivisionError
ZeroDivision(offs) == \E i \in DOMAIN offs : offs[i].area = 0

\* AvgPriceModel.last_avg_price: the possible results of
\* select().where(address == a, date < end_date).order_by(date)[-1];
\* rows of the same date come back in an order the store chooses
last_avg_price(address, end_date, store) ==
    LET rows == { r \in Range(store.avg_prices) :
                    r.address = address /\ r.date < DateField_db_value(end_date) }
    IN  IF rows = {} THEN { None }
        ELSE { Some(r) : r \in { q \in rows : \A o \in rows : o.date <= q.date } }

RECURSIVE SortedAddresses(_)
SortedAddresses(S) ==
    IF S = {} THEN <<>>
    ELSE LET m == CHOOSE x \in S : \A y \in S : x <= y
         IN  <<m>> \o SortedAddresses(S \ {m})

\* the rows one group may give (one per possible last_avg_price); offs are the
\* items of the group and offs[first] is items[0]
avg_price_row(address, offs, store) ==
    LET first == CHOOSE i \in DOMAIN offs :
                    /\ offs[i].address = address
                    /\ \A j \in 1..(i - 1) : offs[j].address # address
        date  == offs[first].date
    IN  { [address |-> address, date |-> date, avg_price |-> avg_price,
           avg_price_change |->
               IF last = None THEN None ELSE Some(avg_price - 100 * last[1].avg_price)]
          : last \in last_avg_price(address, date, store),
            avg_price \in { avg_price_of(offs, address) } }

RECURSIVE concat_by(_, _)
\* the offers of each address of a list of addresses, in the order of the list
concat_by(addresses, offs) ==
    IF addresses = <<>> THEN <<>>
    ELSE LET same(o) == o.address = Head(addresses)
         IN  SelectSeq(offs, same) \o concat_by(Tail(addresses), offs)

\* variant: the offers are grouped in the order of the file
unsorted_offers(offs) == offs

\* sorted(offers, key=grouper): ascending by address, and the sort is stable:
\* the offers of one address keep their order
sorted_by_address(offs) ==
    concat_by(SortedAddresses({ offs[i].address : i \in DOMAIN offs }), offs)

\* the length of the run of offers of one address s begins with
RunLen(s) ==
    LET other == { i \in DOMAIN s : s[i].address # Head(s).address }
    IN  IF other = {} THEN Len(s)
        ELSE (CHOOSE i \in other : \A j \in other : i <= j) - 1

RECURSIVE groupby(_)
\* itertools.groupby(s, key=grouper): one group for every run of consecutive
\* offers of the same address (the run and the rest of s are bound to names by
\* set constructors so that they are computed once)
groupby(s) ==
    IF s = <<>> THEN <<>>
    ELSE The({ << [address |-> Head(s).address, items |-> SubSeq(s, 1, n)] >> \o groupby(rest) :
               n \in { RunLen(s) }, rest \in { SubSeq(s, RunLen(s) + 1, Len(s)) } })

RECURSIVE avg_rows_from(_, _)
\* the row lists the groups may give, one row per group
avg_rows_from(groups, store) ==
    IF groups = <<>> THEN { <<>> }
    ELSE UNION { { <<row>> \o rest :
                     row \in avg_price_row(g.address, g.items, store),
                     rest \in avg_rows_from(tail, store) } :
                 g \in { Head(groups) }, tail \in { Tail(groups) } }

\* get_avg_prices_rows, when no area is 0: the row lists it may return
get_avg_prices_rows(offs, store) ==
    UNION { avg_rows_from(groups, store) :
              groups \in UNION { { groupby(s) } : s \in { sorted_by_address(offs) } } }

(***************************************************************************)
(* insert_butch and the transaction of save_file                           *)
(***************************************************************************)
\* variant: the rows left over after the last full chunk are dropped
chunked_full_only(rows, n) ==
    [k \in 1..(Len(rows) \div n) |-> SubSeq(rows, (k - 1) * n + 1, k * n)]

\* peewee's chunked(rows, n): consecutive slices of at most n rows
chunked(rows, n) ==
    [k \in 1..((Len(rows) + n - 1) \div n) |->
        SubSeq(rows, (k - 1) * n + 1, Min(k * n, Len(rows)))]

\* variant: only the first chunk is inserted
insert_butch_first_only(table, rows) ==
    IF rows = <<>> THEN <<>>
    ELSE << [table |-> table, rows |-> chunked(rows, ChunkSize)[1]] >>

\* the insert_many(...).execute() calls of one insert_butch, in order
insert_butch(table, rows) ==
    LET chunks == chunked(rows, ChunkSize)
    IN  [k \in 1..Len(chunks) |-> [table |-> table, rows |-> chunks[k]]]

\* a row as the table stores it (the fields' db_value)
db_row(table, row) ==
    IF table = "offers" THEN row
    ELSE IF table = "prices"
    THEN [address |-> row.address, date |-> DateField_db_value(row.date), price |-> row.price]
    ELSE [address |-> row.address, date |-> DateField_db_value(row.date),
          avg_price |-> IntegerField_db_value(row.avg_price),
          avg_price_change |->
              IF row.avg_price_change = None THEN None
              ELSE Some(IntegerField_db_value(row.avg_price_change[1]))]

db_rows(table, rows) == [i \in 1..Len(rows) |-> db_row(table, rows[i])]

\* what the open transaction sees: the committed rows, then its own
Visible(store, tx) ==
    [offers     |-> store.offers \o tx.offers,
     prices     |-> store.prices \o tx.prices,
     avg_prices |-> store.avg_prices \o tx.avg_prices]

\* variant: offers has no unique column
constraints_ok_fk_only(table, rows, seen) ==
    table = "prices" =>
        \A i \in DOMAIN rows : \E r \in Range(seen.offers) : r.offer_id = rows[i].address

\* the constraints of the schema on one INSERT statement: offers.offer_id and
\* offers.url are unique, prices.address references offers.offer_id
constraints_ok(table, rows, seen) ==
    IF table = "offers"
    THEN /\ \A i \in DOMAIN rows : \A r \in Range(seen.offers) :
                r.offer_id # rows[i].offer_id /\ r.url # rows[i].url
         /\ \A i, j \in DOMAIN rows :
                i # j => rows[i].offer_id # rows[j].offer_id /\ rows[i].url # rows[j].url
    ELSE IF table = "prices"
    THEN \A i \in DOMAIN rows : \E r \in Range(seen.offers) : r.offer_id = rows[i].address
    ELSE TRUE

add_rows(s, table, rows) ==
    IF table = "offers" THEN [s EXCEPT !.offers = @ \o rows]
    ELSE IF table = "prices" THEN [s EXCEPT !.prices = @ \o rows]
    ELSE [s EXCEPT !.avg_prices = @ \o rows]

\* variant: the insert is executed outside a transaction
execute_autocommit(store, tx, table, rows) ==
    [store |-> add_rows(store, table, db_rows(table, rows)), tx |-> tx]

\* variant: the inserts into prices are executed outside the transaction
execute_prices_autocommit(store, tx, table, rows) ==
    IF table = "prices"
    THEN [store |-> add_rows(store, table, db_rows(table, rows)), tx |-> tx]
    ELSE [store |-> store, tx |-> add_rows(tx, table, db_rows(table, rows))]

\* insert_many(...).execute() inside `with db.atomic()`: the rows belong to the
\* open transaction until it commits
execute_insert(store, tx, table, rows) ==
    [store |-> store, tx |-> add_rows(tx, table, db_rows(table, rows))]

\* variant: the inserted rows are kept when an exception leaves the block
atomic_exit_keep(store, tx, failed) == Visible(store, tx)

\* variant: a commit recomputes the change of every avg_prices row from the
\* latest earlier row of its address
atomic_exit_recompute(store, tx, failed) ==
    IF failed THEN store
    ELSE LET v == Visible(store, tx)
             earlier(r) == { q \in Range(v.avg_prices) :
                               q.address = r.address /\ q.date < r.date }
             last(r) == CHOOSE q \in earlier(r) : \A o \in earlier(r) : o.date <= q.date
         IN  [v EXCEPT !.avg_prices =
                 [i \in DOMAIN v.avg_prices |->
                     IF earlier(v.avg_prices[i]) = {} THEN v.avg_prices[i]
                     ELSE [v.avg_prices[i] EXCEPT !.avg_price_change =
                              Some(v.avg_prices[i].avg_price
                                   - last(v.avg_prices[i]).avg_price)]]]

\* leaving `with db.atomic()`: commit, or roll back when an exception leaves it
atomic_exit(store, tx, failed) == IF failed THEN store ELSE Visible(store, tx)

(***************************************************************************)
(* main: sorted(FILES, key=to_date) and the loop                           *)
(***************************************************************************)
to_date(file) == strptime(file.stem)

RECURSIVE insert_sorted(_, _)
insert_sorted(f, s) ==
    IF s = <<>> THEN <<f>>
    ELSE IF to_date(f).day < to_date(Head(s)).day THEN <<f>> \o s
    ELSE <<Head(s)>> \o insert_sorted(f, Tail(s))

RECURSIVE sorted_rev(_)
\* the stable ascending sort, applied to the reversed listing
sorted_rev(rev) ==
    IF rev = <<>> THEN <<>> ELSE insert_sorted(Head(rev), sorted_rev(Tail(rev)))

Reverse(s) == [i \in 1..Len(s) |-> s[Len(s) + 1 - i]]

\* variant: FILES is iterated as listed
unsorted(listing) == listing

\* sorted(FILES, key=to_date)
sorted(listing) == sorted_rev(Reverse(listing))

\* variant: the loop ends at the first exception
on_exception_break(i, n) == n + 1

\* `continue` after logger.exception, and the fall-through of the bare except:
\* the loop goes on with the following file
on_exception(i, n) == i + 1

(***************************************************************************)
(* The scraper (src/parser.py): for every address of ADDRESSES it asks the *)
(* offers api for the offers of the address, page by page, and appends     *)
(* them to the csv file of the day.  A raw offer is [id |-> n]; the other  *)
(* fields of an offer are copied from it and are left out.  A line of the  *)
(* csv file is a record: the header, or the row of an offer.               *)
(***************************************************************************)
\* the runs of the scraper on the day
MaxRuns == 2

\* dt.date.today(): all runs are on one day
Today == 1

\* 'limit': 25 of _offers_params
Limit == 25

\* offset += 25 in get_offers
OffsetStep == 25

ADDRESSES == << 1, 2 >>

\* _offers_params
offers_params == [limit |-> Limit, offset |-> 0]

\* the result sets the api may hold for an address: none, one, a full page or
\* one more than a page of offers, whose ids belong to the address
ResultSets(address) ==
    { [k \in 1..n |-> [id |-> 100 * address + k]] : n \in {0, 1, Limit, Limit + 1} }

\* response['result'] for a request with the parameters p: the offers of the
\* result set from p.offset on, p.limit at most
Page(rs, p) == SubSeq(rs, p.offset + 1, Min(p.offset + p.limit, Len(rs)))

\* parse_raw_offer of parser.py
Offer(raw_offer) == [offer_id |-> raw_offer.id, date |-> Today]

\* {offer.offer_id: offer for offer in offers}.values(): a key keeps the place
\* of its first offer and the value of its last
unique_offers(offs) ==
    LET place == [i \in DOMAIN offs |-> [i |-> i, offer |-> offs[i]]]
        first(z) == \A j \in 1..(z.i - 1) : offs[j].offer_id # z.offer.offer_id
        keys == SelectSeq(place, first)
        last(id) == CHOOSE i \in DOMAIN offs :
                        /\ offs[i].offer_id = id
                        /\ \A j \in (i + 1)..Len(offs) : offs[j].offer_id # id
    IN  [k \in DOMAIN keys |-> offs[last(keys[k].offer.offer_id)]]

HeaderLine == [header |-> TRUE]
RowLine(offer) == [header |-> FALSE, offer_id |-> offer.offer_id, date |-> offer.date]

\* save_offers: the file of the day is opened for appending; the header is
\* written when the file did not exist
save_offers(file, offs) ==
    LET write_header == file = None
        old == IF write_header THEN << HeaderLine >> ELSE file[1]
    IN  Some(old \o [i \in DOMAIN offs |-> RowLine(offs[i])])

(***************************************************************************)
(* The state.                                                              *)
(***************************************************************************)
VARIABLES
    csv_dir,     \* the snapshot files CSV_DIR may hold when main lists it
    db,          \* the committed content of the store
    tx,          \* the rows inserted by the open transaction
    pc,          \* "done": no run of main is under way; "read", "rows", "write":
                 \* where save_file stands on queue[idx]
    files,       \* FILES, as the glob yields them
    queue,       \* sorted(FILES, key=to_date)
    idx,         \* the position of the loop in queue
    offers,      \* the offers read_offers returned
    todo,        \* the insert statements save_file has still to execute
    passes,      \* the save_file calls made so far, over all runs
    calls,       \* the positions of queue save_file was called on in this run
    outcome,     \* what this run logged for each file of queue
    interrupted, \* a KeyboardInterrupt ended this run
    base,        \* the store when the current save_file call started
    run_base,    \* the store when this run started
    computed,    \* the three row lists each save_file call of this run computed
    failed_at,   \* the insert statements left when the transaction of the current
                 \* save_file call was left by an exception
    rolled_back, \* the rows that transaction had inserted
    saved,       \* the files whose transaction committed so far, over all runs,
                 \* in order
    \* the scraper:
    csv_file,    \* the csv file of the day: None, or Some(its lines)
    ppc,         \* "idle": no run of the scraper is under way; "search",
                 \* "request", "returned": where parse_by_raw_address stands
    address_i,   \* the position of the loop of main in ADDRESSES
    runs,        \* the runs of the scraper so far
    resultset,   \* the offers the api holds for the address
    params,      \* params of get_offers
    offset,      \* offset of get_offers
    count,       \* count of get_offers
    raw_offers,  \* offers of get_offers, raw_offers of parse_by_raw_address
    requests     \* the offset parameter of each request get_offers has made

store_vars == << csv_dir, db, tx, pc, files, queue, idx, offers, todo, passes, calls, outcome,
                 interrupted, base, run_base, computed, failed_at, rolled_back, saved >>

parser_vars == << csv_file, ppc, address_i, runs, resultset, params, offset, count,
                  raw_offers, requests >>

vars == << store_vars, parser_vars >>

NoRows == [offers |-> <<>>, prices |-> <<>>, avg_prices |-> <<>>]

\* the scraper before its first run of the day
ParserIdle ==
    /\ csv_file = None
    /\ ppc = "idle"
    /\ address_i = 1
    /\ runs = 0
    /\ resultset = <<>>
    /\ params = offers_params
    /\ offset = 0
    /\ count = 1
    /\ raw_offers = <<>>
    /\ requests = <<>>

Init ==
    /\ ParserIdle
    /\ csv_dir = Files
    /\ db = EmptyStore
    /\ tx = NoRows
    /\ pc = "done"
    /\ files = <<>>
    /\ queue = <<>>
    /\ idx = 1
    /\ offers = <<>>
    /\ todo = <<>>
    /\ passes = 0
    /\ calls = <<>>
    /\ outcome = <<>>
    /\ interrupted = FALSE
    /\ base = EmptyStore
    /\ run_base = EmptyStore
    /\ computed = <<>>
    /\ failed_at = <<>>
    /\ rolled_back = NoRows
    /\ saved = <<>>

\* main up to the loop: FILES is listed and sorted
StartRun ==
    /\ pc = "done"
    /\ passes < MaxPasses
    /\ \E listing \in Listings(csv_dir, MaxPasses - passes) :
        /\ files' = listing
        /\ queue' = sorted(listing)
        /\ outcome' = [i \in 1..Len(listing) |-> "pending"]
        /\ computed' = [i \in 1..Len(listing) |-> NoRows]
    /\ idx' = 1
    /\ pc' = "read"
    /\ calls' = <<>>
    /\ interrupted' = FALSE
    /\ base' = db
    /\ run_base' = db
    /\ failed_at' = <<>>
    /\ rolled_back' = NoRows
    /\ UNCHANGED << csv_dir, db, tx, offers, todo, passes, saved >>
    /\ UNCHANGED parser_vars

\* an exception of save_file reaches main: it is logged and the loop goes on
Skip(why) ==
    /\ outcome' = [outcome EXCEPT ![idx] = why]
    /\ idx' = on_exception(idx, Len(queue))
    /\ pc' = IF on_exception(idx, Len(queue)) > Len(queue) THEN "done" ELSE "read"

\* save_file, lines 278-280: read_offers
ReadOffers ==
    /\ pc = "read"
    /\ passes' = passes + 1
    /\ calls' = Append(calls, idx)
    /\ base' = db
    /\ failed_at' = <<>>
    /\ rolled_back' = NoRows
    /\ \E oserror \in BOOLEAN :
         IF oserror
         THEN Skip("read_error") /\ UNCHANGED offers
         ELSE IF read_offers(queue[idx]) = None
         THEN Skip("parse_error") /\ UNCHANGED offers
         ELSE /\ offers' = read_offers(queue[idx])[1]
              /\ outcome' = [outcome EXCEPT ![idx] = "processing"]
              /\ pc' = "rows"
              /\ UNCHANGED idx
    /\ UNCHANGED << csv_dir, db, tx, files, queue, todo, interrupted, run_base, computed, saved >>
    /\ UNCHANGED parser_vars

\* save_file, lines 282-289: the three row lists
GetRows ==
    /\ pc = "rows"
    /\ IF ZeroDivision(offers)
       THEN Skip("zero_division") /\ UNCHANGED << todo, computed >>
       ELSE \E offer_rows \in { get_offers_rows(offers, db) },
               price_rows \in { get_price_rows(offers, db) },
               avg_price_rows \in get_avg_prices_rows(offers, db) :
              /\ todo' = insert_butch("offers", offer_rows)
                         \o insert_butch("prices", price_rows)
                         \o insert_butch("avg_prices", avg_price_rows)
              /\ computed' = [computed EXCEPT ![idx] =
                    [offers     |-> db_rows("offers", offer_rows),
                     prices     |-> db_rows("prices", price_rows),
                     avg_prices |-> db_rows("avg_prices", avg_price_rows)]]
              /\ pc' = "write"
              /\ UNCHANGED << idx, outcome >>
    /\ UNCHANGED << csv_dir, db, tx, files, queue, offers, passes, calls, interrupted, base,
                    run_base, failed_at, rolled_back, saved >>
    /\ UNCHANGED parser_vars

\* one insert_many(...).execute() inside the transaction; a violated constraint
\* raises IntegrityError, the transaction is left and StoreException reaches main
\* (the logged traceback names the IntegrityError)
InsertChunk ==
    /\ pc = "write"
    /\ todo # <<>>
    /\ LET c == Head(todo)
       IN  IF constraints_ok(c.table, c.rows, Visible(db, tx))
           THEN /\ db' = execute_insert(db, tx, c.table, c.rows).store
                /\ tx' = execute_insert(db, tx, c.table, c.rows).tx
                /\ todo' = Tail(todo)
                /\ UNCHANGED << pc, idx, outcome, failed_at, rolled_back >>
           ELSE /\ db' = atomic_exit(db, tx, TRUE)
                /\ tx' = NoRows
                /\ failed_at' = todo
                /\ rolled_back' = tx
                /\ todo' = <<>>
                /\ Skip("integrity_error")
    /\ UNCHANGED << csv_dir, files, queue, offers, passes, calls, interrupted, base, run_base,
                    computed, saved >>
    /\ UNCHANGED parser_vars

\* the end of `with db.atomic()` after the last insert: commit, then
\* logger.info('Success saved file') and the next file
Commit ==
    /\ pc = "write"
    /\ todo = <<>>
    /\ db' = atomic_exit(db, tx, FALSE)
    /\ tx' = NoRows
    /\ outcome' = [outcome EXCEPT ![idx] = "saved"]
    /\ saved' = Append(saved, queue[idx])
    /\ idx' = idx + 1
    /\ pc' = IF idx + 1 > Len(queue) THEN "done" ELSE "read"
    /\ UNCHANGED << csv_dir, files, queue, offers, todo, passes, calls, interrupted, base,
                    run_base, computed, failed_at, rolled_back >>
    /\ UNCHANGED parser_vars

\* the store fails a query of the three get_*_rows
QueryFailure ==
    /\ pc = "rows"
    /\ Skip("query_error")
    /\ UNCHANGED << csv_dir, db, tx, files, queue, offers, todo, passes, calls, interrupted,
                    base, run_base, computed, failed_at, rolled_back, saved >>
    /\ UNCHANGED parser_vars

\* the store fails an insert statement or the commit (PeeweeException)
WriteFailure ==
    /\ pc = "write"
    /\ db' = atomic_exit(db, tx, TRUE)
    /\ tx' = NoRows
    /\ failed_at' = todo
    /\ rolled_back' = tx
    /\ todo' = <<>>
    /\ Skip("write_error")
    /\ UNCHANGED << csv_dir, files, queue, offers, passes, calls, interrupted, base, run_base,
                    computed, saved >>
    /\ UNCHANGED parser_vars

\* KeyboardInterrupt is raised wherever the run stands: it leaves an open
\* transaction as an exception does and ends the loop (`break`, or main left).
\* Raised while the block is being left after the last insert, it may find the
\* commit already done: the rows stay and the success is not logged.
KeyboardInterrupt ==
    /\ pc \in {"read", "rows", "write"}
    /\ \E committed \in BOOLEAN :
        /\ committed => (pc = "write" /\ todo = <<>>)
        /\ db' = (IF pc = "write" THEN atomic_exit(db, tx, ~committed) ELSE db)
        /\ saved' = (IF committed THEN Append(saved, queue[idx]) ELSE saved)
        /\ rolled_back' = (IF pc = "write" /\ ~committed THEN tx ELSE rolled_back)
        /\ outcome' = [outcome EXCEPT ![idx] =
                          IF pc = "read" THEN @
                          ELSE IF committed THEN "interrupted_after_commit"
                          ELSE "interrupted"]
    /\ tx' = NoRows
    /\ failed_at' = (IF pc = "write" THEN todo ELSE failed_at)
    /\ todo' = <<>>
    /\ interrupted' = TRUE
    /\ pc' = "done"
    /\ UNCHANGED << csv_dir, files, queue, idx, offers, passes, calls, base, run_base, computed >>
    /\ UNCHANGED parser_vars

Next ==
    \/ StartRun
    \/ ReadOffers
    \/ GetRows
    \/ InsertChunk
    \/ Commit
    \/ QueryFailure
    \/ WriteFailure
    \/ KeyboardInterrupt

Spec == Init /\ [][Next]_vars

\* the directory holds a snapshot of one row, of any raw area, and one call of
\* save_file is left
AreaInit ==
    /\ ParserIdle
    /\ csv_dir = AreaFiles
    /\ db = EmptyStore
    /\ tx = NoRows
    /\ pc = "done"
    /\ files = <<>>
    /\ queue = <<>>
    /\ idx = 1
    /\ offers = <<>>
    /\ todo = <<>>
    /\ passes = MaxPasses - 1
    /\ calls = <<>>
    /\ outcome = <<>>
    /\ interrupted = FALSE
    /\ base = EmptyStore
    /\ run_base = EmptyStore
    /\ computed = <<>>
    /\ failed_at = <<>>
    /\ rolled_back = NoRows
    /\ saved = <<>>

AreaSpec == AreaInit /\ [][Next]_vars

\* the next step of save_file on the current file
SaveFileStep == ReadOffers \/ GetRows \/ InsertChunk \/ Commit

\* a sequential program: once a run is under way, the next step of save_file is
\* taken (starting another run is left to the environment)
FairSpec == Spec /\ WF_vars(SaveFileStep)

(***************************************************************************)
(* The scraper's actions: main of parser.py and parse_by_raw_address       *)
(***************************************************************************)
\* the loop of main goes on with the following address
NextAddress ==
    /\ address_i' = address_i + 1
    /\ ppc' = IF address_i + 1 > Len(ADDRESSES) THEN "idle" ELSE "search"

\* main of parser.py is started
ParserMain ==
    /\ ppc = "idle"
    /\ runs < MaxRuns
    /\ runs' = runs + 1
    /\ address_i' = 1
    /\ ppc' = "search"
    /\ UNCHANGED << csv_file, resultset, params, offset, count, raw_offers, requests >>
    /\ UNCHANGED store_vars

\* search_address, then the first lines of get_offers; when the address is not
\* found ParserException reaches main, which goes on
SearchAddress ==
    /\ ppc = "search"
    /\ \E found \in BOOLEAN :
         IF found
         THEN /\ \E rs \in ResultSets(ADDRESSES[address_i]) : resultset' = rs
              /\ params' = offers_params
              /\ offset' = 0
              /\ count' = 1
              /\ raw_offers' = <<>>
              /\ requests' = <<>>
              /\ ppc' = "request"
              /\ UNCHANGED address_i
         ELSE /\ NextAddress
              /\ UNCHANGED << resultset, params, offset, count, raw_offers, requests >>
    /\ UNCHANGED << csv_file, runs >>
    /\ UNCHANGED store_vars

\* one turn of the loop of get_offers: a request with params, whose response
\* gives count and a page of offers; or the request fails
GetOffers ==
    /\ ppc = "request"
    /\ offset < count
    /\ \E failed \in BOOLEAN :
         IF failed
         THEN /\ NextAddress
              /\ UNCHANGED << count, raw_offers, offset, requests >>
         ELSE /\ requests' = Append(requests, params.offset)
              /\ count' = Len(resultset)
              /\ raw_offers' = raw_offers \o Page(resultset, params)
              /\ offset' = offset + OffsetStep
              /\ UNCHANGED << ppc, address_i >>
    /\ UNCHANGED << csv_file, runs, resultset, params >>
    /\ UNCHANGED store_vars

\* the loop of get_offers ends and the offers are returned
GetOffersReturn ==
    /\ ppc = "request"
    /\ ~(offset < count)
    /\ ppc' = "returned"
    /\ UNCHANGED << csv_file, address_i, runs, resultset, params, offset, count,
                    raw_offers, requests >>
    /\ UNCHANGED store_vars

\* parse_by_raw_address after get_offers: the offers are parsed, made unique
\* and saved; without offers nothing is written; the write may fail
SaveOffers ==
    /\ ppc = "returned"
    /\ \E oserror \in BOOLEAN :
         LET parsed == [i \in DOMAIN raw_offers |-> Offer(raw_offers[i])]
         IN  csv_file' = IF parsed = <<>> \/ oserror THEN csv_file
                         ELSE save_offers(csv_file, unique_offers(parsed))
    /\ NextAddress
    /\ UNCHANGED << runs, resultset, params, offset, count, raw_offers, requests >>
    /\ UNCHANGED store_vars

\* KeyboardInterrupt ends the loop of main
ParserInterrupt ==
    /\ ppc \in {"search", "request", "returned"}
    /\ ppc' = "idle"
    /\ UNCHANGED << csv_file, address_i, runs, resultset, params, offset, count,
                    raw_offers, requests >>
    /\ UNCHANGED store_vars

ParserNext ==
    \/ ParserMain
    \/ SearchAddress
    \/ GetOffers
    \/ GetOffersReturn
    \/ SaveOffers
    \/ ParserInterrupt

ParserSpec == Init /\ [][ParserNext]_vars

(***************************************************************************)
(* Properties                                                              *)
(***************************************************************************)
\* the position of queue the latest save_file call of this run was made on
Current == calls[Len(calls)]

Resolved == { "saved", "read_error", "parse_error", "query_error", "zero_division",
              "write_error", "integrity_error" }

\* this step commits the transaction of queue[idx]
Commits == pc = "write" /\ outcome'[idx] = "saved"

\* C1: processing the same snapshot twice in a row leaves the store as
\* processing it once left it: when the file saved last is saved again, with no
\* other file saved in between, the second save adds no offers, prices or
\* avg_prices row.
C1_Idempotence ==
    [][ (Commits /\ saved # <<>> /\ saved[Len(saved)] = queue[idx]) => db' = db ]_vars

\* C2: when the prices table already holds a row for the date the rows of a
\* snapshot carry, saving that snapshot inserts no price row.
C2_DateDedup ==
    [][ ( /\ Commits
          /\ \A i \in DOMAIN queue[idx].rows :
                \E r \in Range(db.prices) : r.date = queue[idx].rows[i].date )
        => db'.prices = db.prices ]_vars

\* the offers row a csv row is stored as
Listing(raw) ==
    LET o == parse_raw_offer(raw)
    IN  [offer_id |-> o.offer_id, url |-> o.url, address |-> o.address,
         area |-> o.area, floor |-> o.floor]

HasId(file, id) == \E i \in DOMAIN file.rows : file.rows[i].offer_id = id

ListingsOf(file, id) ==
    { Listing(file.rows[i]) : i \in { j \in DOMAIN file.rows : file.rows[j].offer_id = id } }

\* the rows of the file at position i whose offer id the store did not hold
\* when the file was started
NewRows(i) ==
    { r \in Range(queue[i].rows) :
        \A q \in Range(base.offers) : q.offer_id # r.offer_id }

\* C3: for every offer id of a saved snapshot the offers table holds exactly
\* one row, and it carries the attributes the id had in the snapshot saved
\* first; and an offer id that is already stored never fails a file: a write
\* fails on a constraint only when two rows with ids not yet stored share an id
\* or a url, or such a row has the url of a stored offer.
C3_FirstWriteWins ==
    /\ \A id \in UNION { { f.rows[i].offer_id : i \in DOMAIN f.rows } : f \in Range(saved) } :
          LET first == CHOOSE n \in DOMAIN saved :
                          /\ HasId(saved[n], id)
                          /\ \A m \in 1..(n - 1) : ~HasId(saved[m], id)
          IN  /\ Cardinality({ n \in DOMAIN db.offers : db.offers[n].offer_id = id }) = 1
              /\ \A r \in Range(db.offers) :
                    r.offer_id = id => ListingsOf(saved[first], id) = {r}
    /\ (calls # <<>> /\ outcome[Current] = "integrity_error") =>
          \/ \E r \in NewRows(Current) : \E q \in Range(base.offers) : q.url = r.url
          \/ \E i, j \in DOMAIN queue[Current].rows :
                /\ i # j
                /\ queue[Current].rows[i] \in NewRows(Current)
                /\ queue[Current].rows[j] \in NewRows(Current)
                /\ \/ queue[Current].rows[i].offer_id = queue[Current].rows[j].offer_id
                   \/ queue[Current].rows[i].url = queue[Current].rows[j].url

\* two saved snapshots hold the same offer id with different attributes
C3_Witness ==
    \E k1, k2 \in DOMAIN saved : \E id \in 1..3 :
        /\ k1 < k2
        /\ HasId(saved[k1], id) /\ HasId(saved[k2], id)
        /\ ListingsOf(saved[k1], id) # ListingsOf(saved[k2], id)

\* the store with the rows of one save_file call added
WithRows(store, rows) == Visible(store, rows)

\* C4: the write of save_file is atomic: after a failed insert or commit the
\* store is the store the file was started on, with none of the file's rows;
\* after a commit it is that store with all three row lists added; and while
\* the transaction is open the committed store is unchanged.
C4_Atomicity ==
    calls # <<>> =>
        /\ outcome[Current] \in {"write_error", "integrity_error"} => db = base
        /\ outcome[Current] = "saved" => db = WithRows(base, computed[Current])
        /\ outcome[Current] = "processing" => db = base

\* the avg_prices insert failed after the offers and prices inserts had been
\* executed
C4_Witness ==
    /\ calls # <<>>
    /\ outcome[Current] = "write_error"
    /\ failed_at # <<>>
    /\ failed_at[1].table = "avg_prices"
    /\ rolled_back.offers # <<>>
    /\ rolled_back.prices # <<>>
    /\ db = base

\* a later chunk of a row list failed after its first chunk had been executed
C4_ChunkWitness ==
    /\ calls # <<>>
    /\ outcome[Current] = "write_error"
    /\ failed_at # <<>>
    /\ failed_at[1].table = "offers"
    /\ Len(rolled_back.offers) = ChunkSize
    /\ db = base

\* the rows the store held for the address of r, with a date before that of r,
\* when the snapshot was started
Earlier(r) == { q \in Range(base.avg_prices) : q.address = r.address /\ q.date < r.date }

\* C5: the change stored in an avg_prices row is the average stored in that
\* row minus the average stored in the latest earlier row of the address, and
\* is null exactly when the address has no earlier row.
C5_ChangeLookback ==
    (calls # <<>> /\ outcome[Current] = "saved") =>
        \A r \in Range(computed[Current].avg_prices) :
            /\ (r.avg_price_change = None) <=> (Earlier(r) = {})
            /\ Earlier(r) # {} =>
                  \E q \in Earlier(r) :
                      /\ \A o \in Earlier(r) : o.date <= q.date
                      /\ r.avg_price_change = Some(r.avg_price - q.avg_price)

\* C6: the avg_price stored for an address is the mean of price/area over the
\* snapshot's offers of that address, rounded to two decimals: it differs from
\* the mean by at most half a hundredth.
C6_AverageValue ==
    (calls # <<>> /\ outcome[Current] = "saved") =>
        \A r \in Range(computed[Current].avg_prices) :
            LET mean == SumFrac(offers, r.address, 1, Len(offers))
                n    == 100 * mean.num
                d    == mean.den * GroupLen(offers, r.address)
                diff == n - 100 * r.avg_price * d
            IN  2 * (IF diff >= 0 THEN diff ELSE -diff) <= d

\* C7: within a run the snapshots are handled in strictly ascending order of
\* the date in their name, one at a time: save_file is called on the positions
\* 1, 2, ... of a strictly ascending queue, every file before the current one
\* has resolved and none after it is started, and the store holds the averages
\* of every earlier file this run saved when the current one is aggregated.
C7_ChronologicalOrder ==
    /\ \A i, j \in DOMAIN queue : i < j => queue[i].stem < queue[j].stem
    /\ \A k \in DOMAIN calls : calls[k] = k
    /\ pc # "done" =>
          /\ \A i \in 1..(idx - 1) : outcome[i] \in Resolved
          /\ \A i \in (idx + 1)..Len(queue) : outcome[i] = "pending"
          /\ \A i \in 1..(idx - 1) :
                outcome[i] = "saved" =>
                    Range(computed[i].avg_prices) \subseteq Range(db.avg_prices)

\* the glob gave the files out of date order, the earlier file was saved and
\* the later one is being aggregated
C7_Witness ==
    /\ files # queue
    /\ pc = "rows"
    /\ idx = 2
    /\ outcome[1] = "saved"

CountIn(s, x) == Cardinality({ k \in DOMAIN s : s[k] = x })

\* C8: in a run that is not interrupted every snapshot is attempted exactly
\* once and ends saved or skipped with an error, whatever failed before it; and
\* every run reaches the end of its loop.
C8_FailureIsolation ==
    /\ [](( pc = "done" /\ ~interrupted) =>
            \A i \in DOMAIN queue : outcome[i] \in Resolved /\ CountIn(calls, i) = 1)
    /\ ((pc # "done") ~> (pc = "done"))

\* a file failed, the following file of the run was saved and the run is over
C8_Witness ==
    /\ pc = "done"
    /\ ~interrupted
    /\ Len(queue) = 2
    /\ outcome[1] \in Resolved \ {"saved"}
    /\ outcome[2] = "saved"

\* C9 as claimed: a file whose transaction has begun always runs it to its
\* end: the write of a file is left only by a commit or by a failure of the
\* store, never by the interruption.
C9_NeverMidTransaction ==
    [][ (pc = "write" /\ pc' # "write") =>
            outcome'[idx] \in {"saved", "write_error", "integrity_error"} ]_vars

\* C9 as amended: an interruption ends the run and no further file is started;
\* one that arrives inside the write transaction rolls it back, unless the
\* commit was already done: the store is the store the file was started on, or
\* that store with all the rows of the file.
C9_InterruptStopsRun ==
    interrupted =>
        /\ pc = "done"
        /\ tx = NoRows
        /\ \A i \in DOMAIN queue : i > Len(calls) => outcome[i] = "pending"
        /\ (calls # <<>> /\ outcome[Current] = "interrupted") => db = base
        /\ (calls # <<>> /\ outcome[Current] = "interrupted_after_commit") =>
                db = WithRows(base, computed[Current])

\* the interruption arrived after the transaction had inserted rows
C9_Witness ==
    /\ interrupted
    /\ calls # <<>>
    /\ outcome[Current] = "interrupted"
    /\ rolled_back.offers # <<>>
    /\ rolled_back.prices # <<>>
    /\ db = base

RECURSIVE SavedRows(_, _)
\* store, with the rows computed for the files saved among positions 1..n added
SavedRows(store, n) ==
    IF n = 0 THEN store
    ELSE LET s == SavedRows(store, n - 1)
         IN  IF outcome[n] \in {"saved", "interrupted_after_commit"}
             THEN WithRows(s, computed[n])
             ELSE s

\* C10: whenever the driver is between files or has stopped, the store holds
\* all the rows computed for each file of the run that was committed and no row
\* of any other file; and a file that failed before its write left the store as it
\* was when the file was started.
C10_WholeFileBoundary ==
    pc \in {"read", "done"} =>
        /\ db = SavedRows(run_base, Len(queue))
        /\ (calls # <<>> /\ outcome[Current] \in
                {"read_error", "parse_error", "zero_division", "query_error"}) => db = base

\* the run saved a snapshot and then skipped one whose scaled area is 0
C10_Witness ==
    /\ pc = "done"
    /\ Len(queue) = 2
    /\ outcome[1] = "saved"
    /\ computed[1].prices # <<>>
    /\ outcome[2] = "zero_division"
    /\ db = WithRows(run_base, computed[1])

\* C11: the area of a parsed record is the integer quotient of the raw area of
\* its csv row by 100, which is 0 for a raw area below 100, and the offers row
\* stored for the record carries that area.
C11_AreaScaling ==
    /\ pc \in {"rows", "write"} =>
          /\ Len(offers) = Len(queue[idx].rows)
          /\ \A i \in DOMAIN offers :
                /\ offers[i].area = queue[idx].rows[i].area \div 100
                /\ queue[idx].rows[i].area < 100 => offers[i].area = 0
    /\ (calls # <<>> /\ outcome[Current] = "saved") =>
          \A r \in Range(computed[Current].offers) :
              /\ r \in Range(db.offers)
              /\ \A raw \in Range(queue[Current].rows) :
                    raw.offer_id = r.offer_id => r.area = raw.area \div 100

\* a row whose raw area is no multiple of 100 was stored
C11_Witness ==
    /\ calls # <<>>
    /\ outcome[Current] = "saved"
    /\ \E r \in Range(db.offers) : \E raw \in Range(queue[Current].rows) :
          /\ raw.offer_id = r.offer_id
          /\ raw.area % 100 # 0
          /\ r.area = 2

\* a raw area below 100 was parsed to the area 0
C11_ZeroWitness ==
    /\ pc = "rows"
    /\ \E i \in DOMAIN offers : queue[idx].rows[i].area = 99 /\ offers[i].area = 0

\* C12: the avg_prices table holds at most one row for an address and a date.
C12_AvgKeyUnique ==
    \A i, j \in DOMAIN db.avg_prices :
        (db.avg_prices[i].address = db.avg_prices[j].address
            /\ db.avg_prices[i].date = db.avg_prices[j].date) => i = j

\* s is the beginning of t
IsPrefix(s, t) == Len(s) <= Len(t) /\ \A i \in DOMAIN s : t[i] = s[i]

\* C13: no step updates or deletes a stored row: every table keeps the rows it
\* holds, with their values and in their places, and only grows at its end.
C13_RowImmutability ==
    [][ /\ IsPrefix(db.offers, db'.offers)
        /\ IsPrefix(db.prices, db'.prices)
        /\ IsPrefix(db.avg_prices, db'.avg_prices) ]_vars

\* a snapshot of an earlier date was saved after one of a later date, and the
\* avg_prices row of the later date still has no change
C13_Witness ==
    \E i, j \in DOMAIN db.avg_prices :
        /\ i < j
        /\ db.avg_prices[i].address = db.avg_prices[j].address
        /\ db.avg_prices[i].date > db.avg_prices[j].date
        /\ db.avg_prices[i].avg_price_change = None

\* the prices table held no row of the date of the current snapshot when the
\* snapshot was started
DateIsNew ==
    \A raw \in Range(queue[idx].rows) : \A p \in Range(base.prices) : p.date # raw.date

\* C14: when the store holds no price of the snapshot's date, the price rows of
\* the snapshot are one row (offer id, date, price) per csv row, in order, also
\* for the offers that are stored already.
C14_PriceEmission ==
    (pc = "write" /\ DateIsNew) =>
        /\ Len(computed[idx].prices) = Len(queue[idx].rows)
        /\ \A i \in DOMAIN queue[idx].rows :
              computed[idx].prices[i] =
                  [address |-> queue[idx].rows[i].offer_id,
                   date    |-> queue[idx].rows[i].date,
                   price   |-> queue[idx].rows[i].price]

\* a snapshot of a new date holds an offer that is stored already: it gets a
\* price row and no offers row
C14_Witness ==
    /\ pc = "write"
    /\ DateIsNew
    /\ \E raw \in Range(queue[idx].rows) : \E o \in Range(base.offers) :
          o.offer_id = raw.offer_id
    /\ Len(computed[idx].offers) < Len(computed[idx].prices)

\* the avg_prices rows get_avg_prices_rows returned, while none is inserted:
\* they are the last insert statement of save_file
Emitted == todo[Len(todo)].rows

\* C15: for a batch in any row order get_avg_prices_rows returns exactly one
\* row per address of the batch, and the average of the row is the mean of
\* price/area over all the offers of the address in the batch, stored
\* already or not, rounded to two decimals.
C15_Grouping ==
    (pc = "write" /\ todo # <<>>) =>
        /\ todo[Len(todo)].table = "avg_prices"
        /\ Len(Emitted) = Cardinality({ raw.address : raw \in Range(queue[idx].rows) })
        /\ \A raw \in Range(queue[idx].rows) :
              Cardinality({ k \in DOMAIN Emitted : Emitted[k].address = raw.address }) = 1
        /\ \A k \in DOMAIN Emitted :
              LET mean == SumFrac(offers, Emitted[k].address, 1, Len(offers))
                  n    == 100 * mean.num
                  d    == mean.den * GroupLen(offers, Emitted[k].address)
                  diff == n - Emitted[k].avg_price * d
              IN  2 * (IF diff >= 0 THEN diff ELSE -diff) <= d

\* a batch whose rows of one address are apart and which holds an offer that
\* is stored already
C15_Witness ==
    /\ pc = "write"
    /\ todo # <<>>
    /\ Len(queue[idx].rows) = 3
    /\ queue[idx].rows[1].address = queue[idx].rows[3].address
    /\ queue[idx].rows[1].address # queue[idx].rows[2].address
    /\ \E raw \in Range(queue[idx].rows) : \E o \in Range(base.offers) :
          o.offer_id = raw.offer_id
    /\ Len(Emitted) = 2

\* the insert statements of a table that are still to execute
Pending(table) == SelectSeq(todo, LAMBDA c : c.table = table)

\* the rows of a table are inserted by chunks of ChunkSize rows, in order
ChunksOf(table) ==
    LET rows == computed[idx][table]
        done == Len(tx[table])
        stm  == Pending(table)
    IN  /\ tx[table] = SubSeq(rows, 1, done)
        /\ Len(stm) = (Len(rows) - done + ChunkSize - 1) \div ChunkSize
        /\ \A k \in DOMAIN stm :
              /\ Len(stm[k].rows) >= 1
              /\ Len(stm[k].rows) <= ChunkSize
              /\ k < Len(stm) => Len(stm[k].rows) = ChunkSize
              /\ k = Len(stm) => done + (k - 1) * ChunkSize + Len(stm[k].rows) = Len(rows)
              /\ \A i \in DOMAIN stm[k].rows :
                    db_row(table, stm[k].rows[i]) = rows[done + (k - 1) * ChunkSize + i]

\* C16: the rows of each row list are inserted in consecutive chunks of at most
\* 100 rows, every row in exactly one chunk and in its place; n rows take
\* ceil(n/100) insert statements, none when n = 0; the statements of offers
\* come before those of prices and these before those of avg_prices; and all
\* are executed in the one transaction of the snapshot, the committed store
\* staying unchanged meanwhile.
C16_BatchedInsert ==
    pc = "write" =>
        /\ ChunksOf("offers") /\ ChunksOf("prices") /\ ChunksOf("avg_prices")
        /\ todo = Pending("offers") \o Pending("prices") \o Pending("avg_prices")
        /\ db = base

\* the first chunk of 100 offers rows is inserted and a chunk of one row is left
C16_Witness ==
    /\ pc = "write"
    /\ Len(tx.offers) = ChunkSize
    /\ Len(computed[idx].offers) = ChunkSize + 1
    /\ todo # <<>>
    /\ todo[1].table = "offers"
    /\ Len(todo[1].rows) = 1

\* C18: every row of prices references an offer id that offers holds, after
\* any passes, failed and interrupted ones included.
C18_ReferentialIntegrity ==
    { p.address : p \in Range(db.prices) } \subseteq { o.offer_id : o \in Range(db.offers) }

\* a saved snapshot has a price row for an offer an earlier snapshot stored and
\* one for an offer stored with it
C18_Witness ==
    /\ calls # <<>>
    /\ outcome[Current] = "saved"
    /\ \E p \in Range(computed[Current].prices) : \E o \in Range(base.offers) :
          o.offer_id = p.address
    /\ \E p \in Range(computed[Current].prices) : \E o \in Range(computed[Current].offers) :
          o.offer_id = p.address
    /\ Range(computed[Current].prices) \subseteq Range(db.prices)

\* the rows of the snapshot at position i whose offer id the store did not hold
\* when the snapshot was started, by their places
NewPlaces(i) ==
    LET stored == { q.offer_id : q \in Range(base.offers) }
    IN  { k \in DOMAIN queue[i].rows : queue[i].rows[k].offer_id \notin stored }

\* the snapshot at position i holds two rows, of ids the store did not hold when
\* it was started, with the same id or url, or such a row with the url of a
\* stored offer
Conflict(i) ==
    LET new  == NewPlaces(i)
        urls == { q.url : q \in Range(base.offers) }
    IN  \/ \E k \in new : queue[i].rows[k].url \in urls
        \/ Cardinality({ queue[i].rows[k].offer_id : k \in new }) < Cardinality(new)
        \/ Cardinality({ queue[i].rows[k].url : k \in new }) < Cardinality(new)

\* C19: offers never holds two rows with the same offer_id or the same url; and
\* a snapshot with the same new offer id twice, or with a new offer id that has
\* the url of a stored offer, has an offers row for every such csv row, never
\* gets past its inserts into offers, is never saved, and leaves the store as
\* it was when the snapshot was started.
C19_ListingKeyUnique ==
    /\ Cardinality({ o.offer_id : o \in Range(db.offers) }) = Len(db.offers)
    /\ Cardinality({ o.url : o \in Range(db.offers) }) = Len(db.offers)
    /\ (calls # <<>> /\ Conflict(Current)) =>
          /\ outcome[Current] \notin {"saved", "interrupted_after_commit"}
          /\ db = base
          /\ pc = "write" =>
                /\ Len(computed[idx].offers) = Cardinality(NewPlaces(idx))
                /\ Pending("offers") # <<>>

\* a snapshot with a new offer that has the url of a stored offer failed on the
\* constraint
C19_Witness ==
    /\ calls # <<>>
    /\ outcome[Current] = "integrity_error"
    /\ \E r \in NewRows(Current) : \E q \in Range(base.offers) : q.url = r.url
    /\ base.offers # <<>>
    /\ db = base

\* a snapshot with the same new offer id twice failed on the constraint
C19_DupWitness ==
    /\ calls # <<>>
    /\ outcome[Current] = "integrity_error"
    /\ \E j, k \in DOMAIN queue[Current].rows :
          /\ j # k
          /\ queue[Current].rows[j].offer_id = queue[Current].rows[k].offer_id
    /\ db = base

\* C17: the csv file of the day holds exactly one header row and every offer
\* id at most once.
C17_SnapshotUnique ==
    csv_file # None =>
        /\ Cardinality({ i \in DOMAIN csv_file[1] : csv_file[1][i].header }) = 1
        /\ \A i, j \in DOMAIN csv_file[1] :
              (~csv_file[1][i].header /\ ~csv_file[1][j].header
                  /\ csv_file[1][i].offer_id = csv_file[1][j].offer_id) => i = j

\* C20: get_offers returns after max(1, ceil(count/25)) requests, of which the
\* k-th asked for the offset 25*(k-1), and the list it returns holds every
\* offer of the result set exactly once.
C20_Pagination ==
    ppc = "returned" =>
        /\ Len(requests) =
              IF Len(resultset) = 0 THEN 1 ELSE (Len(resultset) + Limit - 1) \div Limit
        /\ \A k \in DOMAIN requests : requests[k] = Limit * (k - 1)
        /\ Len(raw_offers) = Len(resultset)
        /\ \A x \in Range(resultset) :
              Cardinality({ i \in DOMAIN raw_offers : raw_offers[i] = x }) = 1

====
